---- MODULE Spec2Model ----
(***************************************************************************)
(* Model of grid-image.py: one run of the Streamlit script, from the       *)
(* uploaded files and the widget values to the rendered grid and its       *)
(* downloads.  The widget values are the inputs of a run; the script's     *)
(* steps are the actions, in the order the script executes them.           *)
(***************************************************************************)
EXTENDS Integers, Sequences, FiniteSets, TLC

(***************************************************************************)
(* Bounds of the model (the widgets allow more: up to 20x20 cells, border  *)
(* widths up to 20).                                                       *)
(***************************************************************************)
MaxDim == 3

MaxFiles == 4

MaxBorderWidth == 2

MaxUploads == 3

(* The runs of a session and the uploads of a session. *)
MaxRuns == 3

MaxSessionFiles == 2

(* The width of the images whose pixels are examined (they are 1 or 2 pixels
   high), and the height of the gradients. *)
MaxImageSide == 2

MaxGradientHeight == 12

(***************************************************************************)
(* Program constants.                                                      *)
(***************************************************************************)
LabelPadding == 15

LABEL_INSET == 5

ROTATED_TEXT_PAD == 10

(* A conditionally defined variable that no widget has assigned: an option
   string, a number. *)
Undefined == "undefined"

UndefinedNumber == 0 - 1

(* grid_img before the canvas is allocated. *)
NoImage == [mode |-> "none", size |-> <<0, 0>>, fill |-> "none"]

BorderStyles == {"Solid", "Dashed", "Rounded"}

BackgroundTypes == {"Solid Color", "Transparent", "Gradient"}

ColLabelPositions == {"Top", "Bottom", "Both (Top & Bottom)"}

RowLabelPositions == {"Left", "Right", "Both (Left & Right)"}

RowLabelOrientations == {"Horizontal", "Vertical"}

(* The export formats in the order the script reaches them. *)
ExportOrder == <<"PNG", "JPEG", "HQ PNG", "PDF", "WebP", "TIFF", "BMP">>

ExportFormats == {ExportOrder[i] : i \in 1..Len(ExportOrder)}

DRAG == "Simple List (drag names)"

MANUAL == "Manual Position Input"

(***************************************************************************)
(* Small helpers.                                                          *)
(***************************************************************************)
Min(a, b) == IF a <= b THEN a ELSE b

Max(a, b) == IF a >= b THEN a ELSE b

Range(s) == {s[i] : i \in 1..Len(s)}

(* Python's int(a / 2): true division, then truncation towards zero. *)
IntHalf(a) == IF a >= 0 THEN a \div 2 ELSE 0 - ((0 - a) \div 2)

(* s[:n] *)
Prefix(s, n) == SubSeq(s, 1, Min(n, Len(s)))

(* The permutations of 1..n, as sequences. *)
Perms(n) == {p \in [1..n -> 1..n] : \A i, j \in 1..n : p[i] = p[j] => i = j}

(***************************************************************************)
(* Uploaded files.  A file is its name (base and extension), the first     *)
(* 1024 bytes of its content (head), the rest of the content (tail), and   *)
(* what PIL makes of the content: whether it decodes, and the mode and     *)
(* size of the decoded image.                                              *)
(***************************************************************************)
File(base, ext, head, tail, ok, mode, size) ==
    [base |-> base, ext |-> ext, head |-> head, tail |-> tail,
     ok |-> ok, mode |-> mode, size |-> size]

FileName(f) == <<f.base, f.ext>>

(* hashlib.md5(content[:1024]).hexdigest()[:8]: a function of the head only
   (taken collision-free on distinct heads). *)
content_hash(f) == <<"md5", f.head>>

(* create_unique_id: "{base_name}_{content_hash}{extension}"; the index
   parameter is not used. *)
create_unique_id(file_obj, index) ==
    [base |-> file_obj.base, hash |-> content_hash(file_obj), ext |-> file_obj.ext]

(***************************************************************************)
(* The unique file mapping (the loop over uploaded_files).  A file object  *)
(* is represented by its index in uploaded_files.                          *)
(***************************************************************************)
UniqueFilesOf(files) == [i \in 1..Len(files) |-> create_unique_id(files[i], i - 1)]

(* file_id_to_file[unique_id] = file_ref, assigned in upload order: a later
   upload with the same identifier replaces the earlier one. *)
FileIdToFileOf(files) ==
    LET ids == UniqueFilesOf(files)
    IN  [u \in Range(ids) |->
            CHOOSE i \in 1..Len(files) :
                /\ ids[i] = u
                /\ \A j \in 1..Len(files) : ids[j] = u => j <= i]

NameCount(files, f) == Cardinality({i \in 1..Len(files) : FileName(files[i]) = FileName(f)})

(* "name" or, when the name occurs more than once, "name (hash)". *)
DisplayNamesOf(files) ==
    [i \in 1..Len(files) |->
        IF NameCount(files, files[i]) > 1
        THEN [name |-> FileName(files[i]), suffix |-> create_unique_id(files[i], i - 1).hash]
        ELSE [name |-> FileName(files[i]), suffix |-> <<>>]]

(***************************************************************************)
(* Label texts are sequences of characters; the font's metrics stand for   *)
(* ImageDraw.textbbox.                                                     *)
(***************************************************************************)
IsSpace(c) == c = " "

RECURSIVE lstrip(_)
lstrip(s) == IF s # <<>> /\ IsSpace(Head(s)) THEN lstrip(Tail(s)) ELSE s

RECURSIVE rstrip(_)
rstrip(s) ==
    IF s # <<>> /\ IsSpace(s[Len(s)]) THEN rstrip(SubSeq(s, 1, Len(s) - 1)) ELSE s

(* label.strip() *)
strip(s) == rstrip(lstrip(s))

GlyphWidth(c) == CASE c = " " -> 4 [] c = "a" -> 7 [] c = "T" -> 9 [] OTHER -> 8

GlyphAscent(c) == CASE c = " " -> 0 [] c = "a" -> 8 [] c = "T" -> 11 [] OTHER -> 8

GlyphDescent(c) == CASE c = "g" -> 3 [] OTHER -> 0

RECURSIVE SumWidth(_)
SumWidth(s) == IF s = <<>> THEN 0 ELSE GlyphWidth(Head(s)) + SumWidth(Tail(s))

RECURSIVE MaxOver(_, _)
MaxOver(s, m) == IF s = <<>> THEN m ELSE MaxOver(Tail(s), Max(m, Head(s)))

(* textbbox((0, 0), label, font) = (left, top, right, bottom) *)
textbbox(label) ==
    LET asc  == MaxOver([i \in 1..Len(label) |-> GlyphAscent(label[i])], 0)
        desc == MaxOver([i \in 1..Len(label) |-> GlyphDescent(label[i])], 0)
    IN  <<0, 11 - asc, SumWidth(label), 11 + desc>>

TextW(label) == textbbox(label)[3] - textbbox(label)[1]

TextH(label) == textbbox(label)[4] - textbbox(label)[2]

(* AnyNonBlank without the strip: a label of spaces counts as a text. *)
AnyNonEmpty(labels) == \E i \in 1..Len(labels) : labels[i] # <<>>

(* any(label.strip() for label in labels) *)
AnyNonBlank(labels) == \E i \in 1..Len(labels) : strip(labels[i]) # <<>>

(***************************************************************************)
(* resize_image.  An image is its mode, its size, the box its content      *)
(* occupies (inner, at offset) and the width of the border drawn around it.*)
(***************************************************************************)
(* Division rounded to the nearest integer, at least 1. *)
RoundDiv(a, b) == Max(1, (2 * a + b) \div (2 * b))

(* img.thumbnail((width, height)): shrink to fit, keeping the aspect ratio;
   an image that already fits is left alone. *)
thumbnail(size, width, height) ==
    IF width >= size[1] /\ height >= size[2] THEN size
    ELSE IF width * size[2] >= height * size[1]
         THEN <<Min(width, RoundDiv(height * size[1], size[2])), height>>
         ELSE <<width, Min(height, RoundDiv(width * size[2], size[1]))>>

ConvertMode(src_mode, preserve) ==
    IF preserve /\ src_mode \in {"RGBA", "LA", "P"} THEN "RGBA" ELSE "RGB"

(* The border branch is taken for the styles the code handles. *)
DrawsBorder(style) == style \in {"Solid", "Rounded"}

resize_image(img, width, height, maintain, add_border, bwidth, style, preserve) ==
    LET mode  == ConvertMode(img.mode, preserve)
        inner == IF maintain THEN thumbnail(img.size, width, height) ELSE <<width, height>>
        off   == IF maintain
                 THEN <<(width - inner[1]) \div 2, (height - inner[2]) \div 2>>
                 ELSE <<0, 0>>
    IN  IF add_border /\ bwidth > 0 /\ DrawsBorder(style)
        THEN [mode |-> mode,
              size |-> <<width + 2 * bwidth, height + 2 * bwidth>>,
              inner |-> inner,
              offset |-> <<off[1] + bwidth, off[2] + bwidth>>,
              border |-> bwidth]
        ELSE [mode |-> mode, size |-> <<width, height>>,
              inner |-> inner, offset |-> off, border |-> 0]

(***************************************************************************)
(* Layout arithmetic.                                                      *)
(***************************************************************************)
(* ActualSize that forgets the border. *)
ActualSizeNoBorder(size, add, bwidth) == size

(* actual_img_width = resize_width + (2 * border_width if add_borders else 0) *)
ActualSize(size, add, bwidth) == size + (IF add THEN 2 * bwidth ELSE 0)

(* max over the non-blank labels of the measured extent, from 0 *)
RECURSIVE MaxExtent(_, _, _)
MaxExtent(labels, vertical, m) ==
    IF labels = <<>> THEN m
    ELSE LET label == Head(labels)
             ext   == IF vertical THEN TextH(label) ELSE TextW(label)
         IN  MaxExtent(Tail(labels), vertical,
                       IF strip(label) # <<>> THEN Max(m, ext) ELSE m)

(* label_height = max_height + 15 *)
ColLabelHeight(labels) == MaxExtent(labels, TRUE, 0) + LabelPadding

(* label_width = max_width + 15 (horizontal) or max_height + 15 (vertical) *)
RowLabelWidth(labels, orientation) ==
    MaxExtent(labels, orientation # "Horizontal", 0) + LabelPadding

(* The margin of one side: first is "Top"/"Left", both the "Both (...)" choice. *)
SideMargin(has_labels, pos, side, both, extent) ==
    IF has_labels /\ pos \in {side, both} THEN extent ELSE 0

(* GridExtent with a gap counted after every cell, the last one too. *)
GridExtentGapPerCell(before, n, actual, gap, after) ==
    before + n * actual + n * gap + after

(* GridExtent with room for one cell fewer. *)
GridExtentOneShort(before, n, actual, gap, after) ==
    before + (n - 1) * (actual + gap) + after

(* left + n * actual + (n - 1) * spacing + right *)
GridExtent(before, n, actual, gap, after) ==
    before + n * actual + (n - 1) * gap + after

(* PasteX with the columns packed without the spacing. *)
PasteXNoGap(idx, count, ncols, nrows, center, left, actual_w, gap) ==
    left + (idx % ncols) * actual_w

(* PasteX centering within ncols full steps, the trailing gap included. *)
PasteXTrailingGap(idx, count, ncols, nrows, center, left, actual_w, gap) ==
    LET row_idx == idx \div ncols
        col_idx == idx % ncols
        remaining_images == count - row_idx * ncols
        total_img_width  == remaining_images * actual_w + (remaining_images - 1) * gap
        start_x == left + IntHalf(ncols * (actual_w + gap) - total_img_width)
    IN  IF center /\ row_idx = nrows - 1 /\ remaining_images < ncols
        THEN start_x + col_idx * (actual_w + gap)
        ELSE left + col_idx * (actual_w + gap)

(* The x of image idx (0-based) of a list of count images. *)
PasteX(idx, count, ncols, nrows, center, left, actual_w, gap) ==
    LET row_idx == idx \div ncols
        col_idx == idx % ncols
        remaining_images == count - row_idx * ncols
        total_img_width  == remaining_images * actual_w + (remaining_images - 1) * gap
        start_x == left + IntHalf(ncols * (actual_w + gap) - gap - total_img_width)
    IN  IF center /\ row_idx = nrows - 1 /\ remaining_images < ncols
        THEN start_x + col_idx * (actual_w + gap)
        ELSE left + col_idx * (actual_w + gap)

(* The y of image idx. *)
PasteY(idx, ncols, top, actual_h, gap) == top + (idx \div ncols) * (actual_h + gap)

(***************************************************************************)
(* State.  First the inputs of a run (the uploads and the widget values),  *)
(* then the script's own variables.                                        *)
(***************************************************************************)
VARIABLES
    uploaded_files, cols, rows, resize_width, resize_height, spacing,
    maintain_aspect, background_type, preserve_transparency,
    add_borders, border_width, border_style, center_last_row,
    show_col_labels, show_row_labels, col_label_pos, row_label_pos,
    row_label_orientation, col_labels, row_labels,
    arrangement_method, sort_items_order, position_inputs,
    bg_color, bg_color1, bg_color2, border_color, encode_fails, pdf_button,
    pc, unique_files, file_id_to_file, display_names,
    expected_count, final_count, has_col_labels, has_row_labels,
    sorted_unique_ids, images,
    actual_img_width, actual_img_height,
    top_label_height, bottom_label_height, left_label_width, right_label_width,
    grid_width, grid_height, grid_img, labels_drawn, pasted,
    displayed, downloads, messages,
    export_step, exception, session_state, run, rerun_cause,
    call, result

inputs ==
    <<uploaded_files, cols, rows, resize_width, resize_height, spacing,
      maintain_aspect, background_type, preserve_transparency,
      add_borders, border_width, border_style, center_last_row,
      show_col_labels, show_row_labels, col_label_pos, row_label_pos,
      row_label_orientation, col_labels, row_labels,
      arrangement_method, sort_items_order, position_inputs,
      bg_color, bg_color1, bg_color2, border_color, encode_fails, pdf_button>>

idvars == <<unique_files, file_id_to_file, display_names>>

countvars == <<expected_count, final_count, has_col_labels, has_row_labels>>

layoutvars ==
    <<actual_img_width, actual_img_height,
      top_label_height, bottom_label_height, left_label_width, right_label_width,
      grid_width, grid_height>>

rendervars == <<grid_img, labels_drawn, pasted, displayed, downloads>>

(* What a script run leaves alone: the bookkeeping of the session's runs and
   the function call under examination. *)
session == <<run, rerun_cause, call, result>>

vars ==
    <<inputs, pc, idvars, countvars, sorted_unique_ids, images, layoutvars,
      rendervars, messages, export_step, exception, session_state, session>>

(***************************************************************************)
(* The values the widgets can deliver.                                     *)
(***************************************************************************)
(* border_width, border_style exist only when "Add image borders" is checked *)
BorderChoices ==
    {[add_borders |-> FALSE, border_width |-> UndefinedNumber, border_style |-> Undefined,
      border_color |-> Undefined]}
    \cup {[add_borders |-> TRUE, border_width |-> w, border_style |-> st,
           border_color |-> "#000000"] :
            w \in 1..MaxBorderWidth, st \in BorderStyles}

LabelTexts == {<<>>, <<" ">>, <<"a">>, <<" ", "T", "g">>}

(* col_labels: the text inputs when shown, [""] * cols otherwise *)
ColLabelChoices(ncols, texts) ==
    {[show |-> FALSE, labels |-> [i \in 1..ncols |-> <<>>]]}
    \cup {[show |-> TRUE, labels |-> l] : l \in [1..ncols -> texts]}

(* The positioning options: selected when the axis is shown, defaulted when
   only the other axis is shown, not assigned when neither is. *)
LabelPosChoices(shown, other_shown, choices, default) ==
    IF shown THEN choices
    ELSE IF other_shown THEN {default} ELSE {Undefined}

(* One configuration of both label axes. *)
LabelConfig(cl, clp, rl, rlp, rlo) ==
    [show_col_labels |-> cl.show, col_labels |-> cl.labels, col_label_pos |-> clp,
     show_row_labels |-> rl.show, row_labels |-> rl.labels, row_label_pos |-> rlp,
     row_label_orientation |-> rlo]

LabelConfigs(ColChoices, RowChoices) ==
    UNION {
        {LabelConfig(cl, clp, rl, rlp, rlo) :
            clp \in LabelPosChoices(cl.show, rl.show, ColLabelPositions, "Top"),
            rlp \in LabelPosChoices(rl.show, cl.show, RowLabelPositions, "Left"),
            rlo \in LabelPosChoices(rl.show, cl.show, RowLabelOrientations, "Horizontal")}
        : cl \in ColChoices, rl \in RowChoices}

(* The k images that are arranged. *)
ArrangedCount(nrows, ncols, files) == Min(nrows * ncols, Len(files))

(* What the sortable list hands back: the items in the user's order (or
   nothing, which the script guards against). *)
DragChoices(k) ==
    {[arrangement_method |-> DRAG, sort_items_order |-> p, position_inputs |-> <<>>] :
        p \in Perms(k) \cup {<<>>}}

(* One number input per arranged image, each 1..expected_count. *)
ManualChoices(k, expected) ==
    {[arrangement_method |-> MANUAL, sort_items_order |-> <<>>, position_inputs |-> q] :
        q \in [1..k -> 1..expected]}

(* No exception has escaped the script. *)
NoException == [type |-> "none", detail |-> {}]

(* st.session_state of a session that has stored nothing yet. *)
EmptySession == [k \in {} |-> Undefined]

(* No function call is under examination. *)
NoCall == [fn |-> "none"]

(***************************************************************************)
(* The start of a run: the inputs are in place, the script has computed    *)
(* nothing yet.                                                            *)
(***************************************************************************)
Setup(cfg) ==
    /\ uploaded_files = cfg.uploaded_files
    /\ cols = cfg.cols
    /\ rows = cfg.rows
    /\ resize_width = cfg.resize_width
    /\ resize_height = cfg.resize_height
    /\ spacing = cfg.spacing
    /\ maintain_aspect = cfg.maintain_aspect
    /\ background_type = cfg.background_type
    /\ preserve_transparency = cfg.preserve_transparency
    /\ add_borders = cfg.add_borders
    /\ border_width = cfg.border_width
    /\ border_style = cfg.border_style
    /\ center_last_row = cfg.center_last_row
    /\ show_col_labels = cfg.show_col_labels
    /\ show_row_labels = cfg.show_row_labels
    /\ col_label_pos = cfg.col_label_pos
    /\ row_label_pos = cfg.row_label_pos
    /\ row_label_orientation = cfg.row_label_orientation
    /\ col_labels = cfg.col_labels
    /\ row_labels = cfg.row_labels
    /\ arrangement_method = cfg.arrangement_method
    /\ sort_items_order = cfg.sort_items_order
    /\ position_inputs = cfg.position_inputs
    /\ bg_color = cfg.bg_color
    /\ bg_color1 = cfg.bg_color1
    /\ bg_color2 = cfg.bg_color2
    /\ border_color = cfg.border_color
    /\ encode_fails = cfg.encode_fails
    /\ pdf_button = cfg.pdf_button
    /\ pc = "unique_ids"
    /\ unique_files = <<>>
    /\ file_id_to_file = <<>>
    /\ display_names = <<>>
    /\ expected_count = 0
    /\ final_count = 0
    /\ has_col_labels = FALSE
    /\ has_row_labels = FALSE
    /\ sorted_unique_ids = <<>>
    /\ images = <<>>
    /\ actual_img_width = 0
    /\ actual_img_height = 0
    /\ top_label_height = 0
    /\ bottom_label_height = 0
    /\ left_label_width = 0
    /\ right_label_width = 0
    /\ grid_width = 0
    /\ grid_height = 0
    /\ grid_img = NoImage
    /\ labels_drawn = {}
    /\ pasted = <<>>
    /\ displayed = FALSE
    /\ downloads = {}
    /\ messages = {}
    /\ export_step = 0
    /\ exception = NoException
    /\ session_state = EmptySession
    /\ run = 1
    /\ rerun_cause = "none"

(* Uploads. *)
PlainFile(i) == File(<<"img", i>>, ".png", i, 0, TRUE, "RGB", <<300, 100>>)

PlainFiles(n) == [i \in 1..n |-> PlainFile(i)]

(* Two uploads named a.png whose first 1024 bytes agree, a third a.png with
   another head, and a file that PIL cannot decode. *)
FileKinds ==
    {File(<<"a", 0>>, ".png", 1, 1, TRUE, "RGB", <<300, 100>>),
     File(<<"a", 0>>, ".png", 1, 2, TRUE, "RGBA", <<8, 8>>),
     File(<<"a", 0>>, ".png", 2, 1, TRUE, "P", <<50, 200>>),
     File(<<"b", 0>>, ".jpg", 3, 1, FALSE, "RGB", <<0, 0>>)}

DecodableFiles == {f \in FileKinds : f.ok}

FileLists(kinds, maxlen) == UNION {[1..n -> kinds] : n \in 1..maxlen}

NoBorder ==
    [add_borders |-> FALSE, border_width |-> UndefinedNumber, border_style |-> Undefined,
     border_color |-> Undefined]

NoLabels(nrows, ncols) ==
    LabelConfig([show |-> FALSE, labels |-> [i \in 1..ncols |-> <<>>]], Undefined,
                [show |-> FALSE, labels |-> [i \in 1..nrows |-> <<>>]], Undefined, Undefined)

IdentityDrag(k) ==
    [arrangement_method |-> DRAG, sort_items_order |-> [i \in 1..k |-> i],
     position_inputs |-> <<>>]

Geometry(files, nrows, ncols, w, h, gap, center) ==
    [uploaded_files |-> files, rows |-> nrows, cols |-> ncols,
     resize_width |-> w, resize_height |-> h, spacing |-> gap,
     center_last_row |-> center]

(* The colour pickers of the background: bg_color exists only for a solid
   colour, bg_color1 and bg_color2 only for a gradient. *)
BackgroundColors(bg, solid, start, end) ==
    [bg_color  |-> IF bg = "Solid Color" THEN solid ELSE Undefined,
     bg_color1 |-> IF bg = "Gradient" THEN start ELSE Undefined,
     bg_color2 |-> IF bg = "Gradient" THEN end ELSE Undefined]

Rendering(aspect, bg, preserve) ==
    [maintain_aspect |-> aspect, background_type |-> bg,
     preserve_transparency |-> preserve]
    @@ BackgroundColors(bg, "#FFFFFF", "#FFFFFF", "#F0F0F0")

(* Which encoders fail in the run, and whether "Generate PDF" was pressed. *)
Exporting(fails, pressed) == [encode_fails |-> fails, pdf_button |-> pressed]

AllEncode == Exporting({}, FALSE)

(* Label configurations of the geometry family: the default column labels,
   no labels, labels on both axes. *)
GeoLabelConfigs(nrows, ncols) ==
    LET colsOn  == [show |-> TRUE, labels |-> [i \in 1..ncols |-> <<" ", "T", "g">>]]
        colsOff == [show |-> FALSE, labels |-> [i \in 1..ncols |-> <<>>]]
        rowsOn  == [show |-> TRUE, labels |-> [i \in 1..nrows |-> <<"a">>]]
        rowsOff == [show |-> FALSE, labels |-> [i \in 1..nrows |-> <<>>]]
    IN  {LabelConfig(colsOn, "Top", rowsOff, "Left", "Horizontal"),
         LabelConfig(colsOff, Undefined, rowsOff, Undefined, Undefined),
         LabelConfig(colsOn, "Both (Top & Bottom)", rowsOn, "Left", "Horizontal")}

(* Family 1: grid geometry (grid size, image count, cell size, spacing,
   borders, last-row centering). *)
GeoInit ==
    \E r \in 1..MaxDim, c \in 1..MaxDim, n \in 1..MaxFiles :
    \E w \in {10, 100}, gap \in {0, 10}, center \in BOOLEAN :
    \E b \in BorderChoices, l \in GeoLabelConfigs(r, c) :
        Setup(Geometry(PlainFiles(n), r, c, w, 20, gap, center) @@ b @@ l
              @@ Rendering(FALSE, "Solid Color", TRUE)
              @@ IdentityDrag(ArrangedCount(r, c, PlainFiles(n))) @@ AllEncode)

(* Family 2: labels (which axes are shown, where, with which texts), on
   grids of up to 2x2 cells holding one image, over every background. *)
LabelFamilyConfigs(r, c) ==
    LabelConfigs(ColLabelChoices(c, LabelTexts), ColLabelChoices(r, {<<"a">>}))
    \cup LabelConfigs(ColLabelChoices(c, {<<"a">>}), ColLabelChoices(r, LabelTexts))

LabelInit ==
    \E r \in 1..2, c \in 1..2, bg \in BackgroundTypes :
    \E l \in LabelFamilyConfigs(r, c) :
        Setup(Geometry(PlainFiles(1), r, c, 100, 20, 10, FALSE) @@ NoBorder @@ l
              @@ Rendering(FALSE, bg, TRUE) @@ IdentityDrag(1) @@ AllEncode)

(* Family 3: uploads and their arrangement (files sharing names and heads,
   an undecodable file; every drag order; every manual position input). *)
ArrangeInit ==
    \E r \in 1..2, c \in 1..2 :
    \/ \E files \in FileLists(FileKinds, MaxUploads) :
       \E a \in DragChoices(ArrangedCount(r, c, files)) :
            Setup(Geometry(files, r, c, 10, 20, 0, FALSE) @@ NoBorder @@ NoLabels(r, c)
                  @@ Rendering(FALSE, "Solid Color", TRUE) @@ a @@ AllEncode)
    \/ \E files \in FileLists(DecodableFiles, MaxUploads) :
       \E a \in ManualChoices(ArrangedCount(r, c, files), r * c) :
            Setup(Geometry(files, r, c, 10, 20, 0, FALSE) @@ NoBorder @@ NoLabels(r, c)
                  @@ Rendering(FALSE, "Solid Color", TRUE) @@ a @@ AllEncode)

(* Family 4: normalisation of one image (source mode and size, aspect
   ratio, transparency, borders). *)
ImageInit ==
    \E f \in FileKinds, w \in {10, 100}, b \in BorderChoices :
    \E aspect \in BOOLEAN, preserve \in BOOLEAN, bg \in BackgroundTypes :
        Setup(Geometry(<<f>>, 1, 1, w, 20, 0, FALSE) @@ b @@ NoLabels(1, 1)
              @@ Rendering(aspect, bg, preserve) @@ IdentityDrag(1) @@ AllEncode)

(* Family 5: the exports (which encoders fail, whether "Generate PDF" was
   pressed), over every background. *)
ExportInit ==
    \E bg \in BackgroundTypes, fails \in SUBSET ExportFormats, pressed \in BOOLEAN :
        Setup(Geometry(PlainFiles(1), 1, 1, 10, 20, 0, FALSE) @@ NoBorder @@ NoLabels(1, 1)
              @@ Rendering(FALSE, bg, TRUE) @@ IdentityDrag(1) @@ Exporting(fails, pressed))

Init ==
    /\ GeoInit \/ LabelInit \/ ArrangeInit \/ ImageInit \/ ExportInit
    /\ call = NoCall
    /\ result = NoCall

(***************************************************************************)
(* The script, step by step.                                               *)
(***************************************************************************)
(* Create unique file mapping: unique_files, file_id_to_file, display_names *)
CreateUniqueIds ==
    /\ pc = "unique_ids"
    /\ unique_files' = UniqueFilesOf(uploaded_files)
    /\ file_id_to_file' = FileIdToFileOf(uploaded_files)
    /\ display_names' = DisplayNamesOf(uploaded_files)
    /\ pc' = "count"
    /\ UNCHANGED <<inputs, countvars, sorted_unique_ids, images, layoutvars,
                   rendervars, messages,
                   export_step, exception, session_state, session>>

(* expected_count, final_count, the truncation of display_names and
   unique_files, and the label flags *)
CountImages ==
    /\ pc = "count"
    /\ LET expected  == rows * cols
           available == Len(uploaded_files)
           final     == IF available < expected THEN available ELSE expected
       IN  /\ expected_count' = expected
           /\ final_count' = final
           /\ messages' = messages \cup
                 (IF available < expected THEN {"warning: fewer images than grid size"}
                  ELSE IF available > expected THEN {"info: using only the first images"}
                  ELSE {})
           /\ display_names' = Prefix(display_names, final)
           /\ unique_files' = Prefix(unique_files, final)
    /\ has_col_labels' = (show_col_labels /\ AnyNonBlank(col_labels))
    /\ has_row_labels' = (show_row_labels /\ AnyNonBlank(row_labels))
    /\ pc' = "arrange"
    /\ UNCHANGED <<inputs, file_id_to_file, sorted_unique_ids, images, layoutvars,
                   rendervars,
                   export_step, exception, session_state, session>>

(* sort_items(display_names): the items in the order the user dragged them to *)
sort_items(items, order) == [i \in 1..Len(order) |-> items[order[i]]]

(* {display_names[i]: unique_files[i] for i in range(len(display_names))} *)
DisplayToUnique(names, ids) ==
    [d \in Range(names) |->
        ids[CHOOSE i \in 1..Len(names) :
                /\ names[i] = d
                /\ \A j \in 1..Len(names) : names[j] = d => j <= i]]

(* The order the drag list yields. *)
DragOrder(names, ids, sorted_names) ==
    [i \in 1..Len(sorted_names) |-> DisplayToUnique(names, ids)[sorted_names[i]]]

(* Simple List (drag names) *)
ArrangeDrag ==
    /\ pc = "arrange"
    /\ arrangement_method = DRAG
    /\ LET sorted_display_names == sort_items(display_names, sort_items_order)
       IN  IF \/ sorted_display_names = <<>>
              \/ Len(sorted_display_names) # Min(expected_count, Len(uploaded_files))
           THEN /\ messages' = messages \cup {"warning: please arrange all images"}
                /\ pc' = "stopped"
                /\ UNCHANGED sorted_unique_ids
           ELSE /\ sorted_unique_ids' =
                      DragOrder(display_names, unique_files, sorted_display_names)
                /\ pc' = "process"
                /\ UNCHANGED messages
    /\ UNCHANGED <<inputs, idvars, countvars, images, layoutvars, rendervars,
                   export_step, exception, session_state, session>>

(* len(set(positions)) != len(positions) *)
HasDuplicates(positions) == Cardinality(Range(positions)) # Len(positions)

(* set(positions) != set(range(1, expected_count + 1)) *)
NotExactly(positions, expected) == Range(positions) # 1..expected

(* position_to_idx = {pos: idx for idx, pos in position_inputs.items()} *)
PositionToIdx(positions) ==
    [pos \in Range(positions) |->
        CHOOSE idx \in 1..Len(positions) :
            /\ positions[idx] = pos
            /\ \A j \in 1..Len(positions) : positions[j] = pos => j <= idx]

(* The order the manual positions yield. *)
ManualOrder(positions, ids, expected) ==
    [pos \in 1..expected |-> ids[PositionToIdx(positions)[pos]]]

(* Manual Position Input *)
ArrangeManual ==
    /\ pc = "arrange"
    /\ arrangement_method = MANUAL
    /\ IF HasDuplicates(position_inputs)
       THEN /\ messages' = messages \cup {"error: each position must be unique"}
            /\ pc' = "stopped"
            /\ UNCHANGED sorted_unique_ids
       ELSE IF NotExactly(position_inputs, expected_count)
       THEN /\ messages' = messages \cup {"error: use positions 1 to N exactly once"}
            /\ pc' = "stopped"
            /\ UNCHANGED sorted_unique_ids
       ELSE /\ sorted_unique_ids' = ManualOrder(position_inputs, unique_files, expected_count)
            /\ messages' = messages \cup {"success: all positions assigned"}
            /\ pc' = "process"
    /\ UNCHANGED <<inputs, idvars, countvars, images, layoutvars, rendervars,
                   export_step, exception, session_state, session>>

(* The file object an identifier resolves to: file_id_to_file[unique_id]. *)
FileOf(unique_id) == uploaded_files[file_id_to_file[unique_id]]

(* ProcessFailure without the st.stop(): the error is shown and the script
   goes on with the images normalised so far. *)
ProcessFailureContinues ==
    /\ messages' = messages \cup {"error: processing images"}
    /\ pc' = "layout"
    /\ UNCHANGED images

(* except Exception: st.error(...); st.stop() *)
ProcessFailure ==
    /\ messages' = messages \cup {"error: processing images"}
    /\ pc' = "stopped"
    /\ UNCHANGED images

(* Whether the script has not assigned the conditionally defined variable
   of that name in this run. *)
Unset(name) ==
    CASE name = "bg_color" -> bg_color = Undefined
      [] name = "bg_color1" -> bg_color1 = Undefined
      [] name = "bg_color2" -> bg_color2 = Undefined
      [] name = "border_width" -> border_width = UndefinedNumber
      [] name = "border_color" -> border_color = Undefined
      [] name = "border_style" -> border_style = Undefined
      [] name = "col_label_pos" -> col_label_pos = Undefined
      [] name = "row_label_pos" -> row_label_pos = Undefined
      [] name = "row_label_orientation" -> row_label_orientation = Undefined

(* The names among those read that raise NameError. *)
Raises(names) == {name \in names : Unset(name)}

(* An exception that nothing catches: Streamlit reports it and the run ends
   where it was raised. *)
Uncaught(type, detail) ==
    /\ exception' = [type |-> type, detail |-> detail]
    /\ pc' = "crashed"
    /\ UNCHANGED <<inputs, idvars, countvars, sorted_unique_ids, images, layoutvars,
                   rendervars, messages, export_step, session_state, session>>

(* The conditionally defined variables the normalisation loop reads, with
   the border style that resize_image reads as a global. *)
ProcessReadsUnguarded == {"border_width", "border_color", "border_style"}

ProcessReads ==
    IF add_borders
    THEN {"border_width", "border_color"}
         \cup (IF border_width > 0 THEN {"border_style"} ELSE {})
    ELSE {}

(* One pass of the loop over sorted_unique_ids: Image.open and resize_image,
   inside the try block. *)
ProcessImage ==
    /\ pc = "process"
    /\ Len(images) < Len(sorted_unique_ids)
    /\ LET unique_id == sorted_unique_ids[Len(images) + 1]
           img == FileOf(unique_id)
       IN  IF ~img.ok \/ Raises(ProcessReads) # {}
           THEN ProcessFailure
           ELSE /\ images' = Append(images,
                      resize_image(img, resize_width, resize_height, maintain_aspect,
                                   add_borders,
                                   IF add_borders THEN border_width ELSE 0,
                                   border_style, preserve_transparency)
                      @@ [file |-> file_id_to_file[unique_id]])
                /\ pc' = IF Len(images) + 1 = Len(sorted_unique_ids)
                         THEN "layout" ELSE "process"
                /\ UNCHANGED messages
    /\ UNCHANGED <<inputs, idvars, countvars, sorted_unique_ids, layoutvars, rendervars,
                   export_step, exception, session_state, session>>

(* The conditionally defined variables the layout reads. *)
LayoutReads ==
    (IF add_borders THEN {"border_width"} ELSE {})
    \cup (IF has_col_labels THEN {"col_label_pos"} ELSE {})
    \cup (IF has_row_labels THEN {"row_label_orientation", "row_label_pos"} ELSE {})

(* Calculate the image dimensions, the label dimensions and the final
   dimensions. *)
CalcLayout ==
    /\ pc = "layout"
    /\ IF Raises(LayoutReads) # {}
       THEN Uncaught("NameError", Raises(LayoutReads))
       ELSE /\ LET aw  == ActualSize(resize_width, add_borders, border_width)
                   ah  == ActualSize(resize_height, add_borders, border_width)
                   lh  == IF has_col_labels THEN ColLabelHeight(col_labels) ELSE 0
                   lw  == IF has_row_labels
                          THEN RowLabelWidth(row_labels, row_label_orientation) ELSE 0
                   top == SideMargin(has_col_labels, col_label_pos, "Top",
                                     "Both (Top & Bottom)", lh)
                   bot == SideMargin(has_col_labels, col_label_pos, "Bottom",
                                     "Both (Top & Bottom)", lh)
                   lft == SideMargin(has_row_labels, row_label_pos, "Left",
                                     "Both (Left & Right)", lw)
                   rgt == SideMargin(has_row_labels, row_label_pos, "Right",
                                     "Both (Left & Right)", lw)
               IN  /\ actual_img_width' = aw
                   /\ actual_img_height' = ah
                   /\ top_label_height' = top
                   /\ bottom_label_height' = bot
                   /\ left_label_width' = lft
                   /\ right_label_width' = rgt
                   /\ grid_width' = GridExtent(lft, cols, aw, spacing, rgt)
                   /\ grid_height' = GridExtent(top, rows, ah, spacing, bot)
            /\ pc' = "background"
            /\ UNCHANGED <<inputs, idvars, countvars, sorted_unique_ids, images,
                           rendervars, messages, export_step, exception,
                           session_state, session>>

(* The conditionally defined variables the background allocation reads. *)
BackgroundReads ==
    IF background_type = "Transparent" THEN {}
    ELSE IF background_type = "Gradient" THEN {"bg_color1", "bg_color2"}
    ELSE {"bg_color"}

(* Create grid with appropriate background *)
CreateBackground ==
    /\ pc = "background"
    /\ IF Raises(BackgroundReads) # {}
       THEN Uncaught("NameError", Raises(BackgroundReads))
       ELSE /\ grid_img' =
                  IF background_type = "Transparent"
                  THEN [mode |-> "RGBA", size |-> <<grid_width, grid_height>>,
                        fill |-> "transparent"]
                  ELSE IF background_type = "Gradient"
                  THEN [mode |-> "RGB", size |-> <<grid_width, grid_height>>,
                        fill |-> "gradient"]
                  ELSE [mode |-> "RGB", size |-> <<grid_width, grid_height>>,
                        fill |-> "bg_color"]
            /\ pc' = "labels"
            /\ UNCHANGED <<inputs, idvars, countvars, sorted_unique_ids, images,
                           layoutvars, labels_drawn, pasted, displayed, downloads,
                           messages, export_step, exception, session_state, session>>

(* The column labels drawn: one text per non-blank label and selected side. *)
ColLabelsDrawn ==
    {[axis |-> "col", side |-> side, index |-> i, kind |-> "text", backing |-> "none",
      x |-> IntHalf(2 * (left_label_width + (i - 1) * (actual_img_width + spacing))
                    + (actual_img_width - TextW(col_labels[i]))),
      y |-> IF side = "Top" THEN LABEL_INSET
            ELSE grid_height - bottom_label_height + LABEL_INSET] :
        i \in {j \in 1..Len(col_labels) : has_col_labels /\ strip(col_labels[j]) # <<>>},
        side \in {sd \in {"Top", "Bottom"} : col_label_pos \in {sd, "Both (Top & Bottom)"}}}

(* create_rotated_text(label).size after the rotation by 90 degrees *)
RotatedSize(label) == <<TextH(label) + ROTATED_TEXT_PAD, TextW(label) + ROTATED_TEXT_PAD>>

(* The fill a rotated label is flattened onto before it is pasted. *)
RotatedBacking ==
    IF background_type = "Transparent" THEN "none"
    ELSE IF background_type = "Solid Color" THEN "bg_color" ELSE "white"

(* The row labels drawn, horizontal or rotated. *)
RowLabelsDrawn ==
    {[axis |-> "row", side |-> side, index |-> i,
      kind |-> IF row_label_orientation = "Horizontal" THEN "text" ELSE "rotated",
      backing |-> IF row_label_orientation = "Horizontal" THEN "none" ELSE RotatedBacking,
      x |-> IF row_label_orientation = "Horizontal"
            THEN (IF side = "Left" THEN LABEL_INSET
                  ELSE grid_width - right_label_width + LABEL_INSET)
            ELSE IntHalf(2 * (IF side = "Left" THEN IntHalf(left_label_width)
                              ELSE IntHalf(2 * grid_width - right_label_width))
                         - RotatedSize(row_labels[i])[1]),
      y |-> LET base == top_label_height + (i - 1) * (actual_img_height + spacing)
            IN  IF row_label_orientation = "Horizontal"
                THEN IntHalf(2 * base + (actual_img_height - TextH(row_labels[i])))
                ELSE IntHalf(2 * IntHalf(2 * base + actual_img_height)
                             - RotatedSize(row_labels[i])[2])] :
        i \in {j \in 1..Len(row_labels) : has_row_labels /\ strip(row_labels[j]) # <<>>},
        side \in {sd \in {"Left", "Right"} : row_label_pos \in {sd, "Both (Left & Right)"}}}

(* The conditionally defined variables the label drawing reads. *)
LabelReads ==
    (IF has_col_labels THEN {"col_label_pos"} ELSE {})
    \cup (IF has_row_labels THEN {"row_label_orientation", "row_label_pos"} ELSE {})
    \cup (IF /\ RowLabelsDrawn # {}
             /\ row_label_orientation # "Horizontal"
             /\ background_type = "Solid Color"
          THEN {"bg_color"} ELSE {})

(* Draw column labels and row labels *)
DrawLabels ==
    /\ pc = "labels"
    /\ IF Raises(LabelReads) # {}
       THEN Uncaught("NameError", Raises(LabelReads))
       ELSE /\ labels_drawn' = ColLabelsDrawn \cup RowLabelsDrawn
            /\ pc' = "paste"
            /\ UNCHANGED <<inputs, idvars, countvars, sorted_unique_ids, images,
                           layoutvars, grid_img, pasted, displayed, downloads, messages,
                           export_step, exception, session_state, session>>

(* One pass of the paste loop: image idx (0-based) of images. *)
PasteImage ==
    /\ pc = "paste"
    /\ Len(pasted) < Len(images)
    /\ LET idx == Len(pasted)
           img == images[idx + 1]
       IN  pasted' = Append(pasted,
               [x |-> PasteX(idx, Len(images), cols, rows, center_last_row,
                             left_label_width, actual_img_width, spacing),
                y |-> PasteY(idx, cols, top_label_height, actual_img_height, spacing),
                size |-> img.size,
                masked |-> (preserve_transparency /\ img.mode = "RGBA"),
                file |-> img.file])
    /\ pc' = IF Len(pasted) + 1 = Len(images) THEN "display" ELSE "paste"
    /\ UNCHANGED <<inputs, idvars, countvars, sorted_unique_ids, images, layoutvars,
                   grid_img, labels_drawn, displayed, downloads, messages,
                   export_step, exception, session_state, session>>

(* Display results: st.image(grid_img) *)
DisplayGrid ==
    /\ pc = "display"
    /\ displayed' = TRUE
    /\ pc' = "export"
    /\ UNCHANGED <<inputs, idvars, countvars, sorted_unique_ids, images, layoutvars,
                   grid_img, labels_drawn, pasted, downloads, messages,
                   export_step, exception, session_state, session>>

(* An RGBA canvas composited onto an opaque white RGB image of its size:
   Image.new('RGB', grid_img.size, (255, 255, 255)) and paste with the alpha
   channel as the mask. *)
FlattenOntoWhite(img) == [mode |-> "RGB", size |-> img.size, backing |-> "white"]

(* The canvas as it is. *)
AsIs(img) == [mode |-> img.mode, size |-> img.size, backing |-> "none"]

(* EncoderInput without the compositing: the canvas goes to every encoder as
   it is. *)
EncoderInputAsIs(format) == AsIs(grid_img)

(* The image a format's encoder is handed: JPEG, BMP and the PDF writer
   flatten an RGBA canvas onto white first. *)
EncoderInput(format) ==
    IF format \in {"JPEG", "BMP", "PDF"} /\ grid_img.mode = "RGBA"
    THEN FlattenOntoWhite(grid_img)
    ELSE AsIs(grid_img)

(* The formats saved and offered on every run. *)
DownloadFormats == {"PNG", "JPEG", "HQ PNG", "WebP", "TIFF", "BMP"}

(* The canvas of the run: the background, the labels drawn on it and the
   images pasted into it. *)
Canvas == [img |-> grid_img, labels |-> labels_drawn, pasted |-> pasted]

(* What a download button offers: the bytes a format's encoder made of the
   canvas. *)
Offer(format) == [format |-> format, image |-> EncoderInput(format), canvas |-> Canvas]

(* st.session_state.update(entries) *)
Updated(state, entries) ==
    [k \in DOMAIN state \cup DOMAIN entries |->
        IF k \in DOMAIN entries THEN entries[k] ELSE state[k]]

(* The position of a format among the export blocks. *)
PositionOf(format) == CHOOSE i \in 1..Len(ExportOrder) : ExportOrder[i] = format

(* The first export block whose save raises, or one past the last block
   when none does.  grid_img.save of PNG, JPEG, HQ PNG, WebP, TIFF and BMP is
   not inside a try block; the PDF generation is. *)
FirstFailure ==
    LET failing == {i \in 1..Len(ExportOrder) :
                        ExportOrder[i] \in DownloadFormats \cap encode_fails}
    IN  IF failing = {} THEN Len(ExportOrder) + 1
        ELSE CHOOSE i \in failing : \A j \in failing : i <= j

(* The export block of the format is run to its end. *)
Completed(format) == PositionOf(format) < FirstFailure

(* if st.button("Generate PDF"): try create_pdf_with_grid and store the
   bytes / except st.error. *)
GeneratePDF(state) ==
    IF pdf_button /\ "PDF" \notin encode_fails
    THEN Updated(state, [pdf_data |-> Offer("PDF")])
    ELSE state

(* The download options, block after block in the order of the script:
   every format is saved and offered until a save raises; the PDF is
   generated when its button was pressed and offered whenever 'pdf_data' is
   in st.session_state. *)
ExportGrid ==
    /\ pc = "export"
    /\ LET state == IF Completed("PDF") THEN GeneratePDF(session_state)
                    ELSE session_state
       IN  /\ session_state' = state
           /\ downloads' =
                 {Offer(format) : format \in {f \in DownloadFormats : Completed(f)}}
                 \cup (IF Completed("PDF") /\ "pdf_data" \in DOMAIN state
                       THEN {state["pdf_data"]} ELSE {})
           /\ messages' = messages \cup
                 (IF Completed("PDF") /\ pdf_button
                  THEN (IF "PDF" \in encode_fails THEN {"error: creating PDF"}
                        ELSE {"success: PDF generated"})
                  ELSE {})
    /\ export_step' = FirstFailure - 1
    /\ IF FirstFailure <= Len(ExportOrder)
       THEN /\ exception' = [type |-> "save", detail |-> {ExportOrder[FirstFailure]}]
            /\ pc' = "crashed"
       ELSE /\ pc' = "info"
            /\ UNCHANGED exception
    /\ UNCHANGED <<inputs, idvars, countvars, sorted_unique_ids, images, layoutvars,
                   grid_img, labels_drawn, pasted, displayed, session>>

(* The conditionally defined variables the grid information reads. *)
InfoReads == IF add_borders THEN {"border_width", "border_color"} ELSE {}

(* Show enhanced grid info *)
ShowGridInfo ==
    /\ pc = "info"
    /\ IF Raises(InfoReads) # {}
       THEN Uncaught("NameError", Raises(InfoReads))
       ELSE /\ messages' = messages \cup {"info: grid information"}
            /\ pc' = "done"
            /\ UNCHANGED <<inputs, idvars, countvars, sorted_unique_ids, images,
                           layoutvars, rendervars, export_step, exception,
                           session_state, session>>

Next ==
    \/ CreateUniqueIds
    \/ CountImages
    \/ ArrangeDrag
    \/ ArrangeManual
    \/ ProcessImage
    \/ CalcLayout
    \/ CreateBackground
    \/ DrawLabels
    \/ PasteImage
    \/ DisplayGrid
    \/ ExportGrid
    \/ ShowGridInfo

Spec == Init /\ [][Next]_vars

(***************************************************************************)
(* The session: an interaction ends the run that is on the page and starts *)
(* the script again, with st.session_state kept.                           *)
(***************************************************************************)
(* The inputs no interaction modelled here changes. *)
fixed_inputs ==
    <<uploaded_files, cols, rows, resize_width, resize_height, maintain_aspect,
      center_last_row, show_col_labels, show_row_labels, col_label_pos, row_label_pos,
      row_label_orientation, col_labels, row_labels, arrangement_method,
      sort_items_order, position_inputs, encode_fails>>

(* The inputs whose widgets take their default from st.session_state. *)
preset_inputs ==
    <<spacing, background_type, bg_color, bg_color1, bg_color2, preserve_transparency,
      add_borders, border_width, border_color, border_style>>

(* The script has run to its end, to an st.stop() or into an exception. *)
RunEnded == pc \in {"done", "stopped", "crashed"}

(* The script starts again from its first line: every variable of the
   script is computed afresh. *)
ResetScript ==
    /\ pc' = "unique_ids"
    /\ unique_files' = <<>>
    /\ file_id_to_file' = <<>>
    /\ display_names' = <<>>
    /\ expected_count' = 0
    /\ final_count' = 0
    /\ has_col_labels' = FALSE
    /\ has_row_labels' = FALSE
    /\ sorted_unique_ids' = <<>>
    /\ images' = <<>>
    /\ actual_img_width' = 0
    /\ actual_img_height' = 0
    /\ top_label_height' = 0
    /\ bottom_label_height' = 0
    /\ left_label_width' = 0
    /\ right_label_width' = 0
    /\ grid_width' = 0
    /\ grid_height' = 0
    /\ grid_img' = NoImage
    /\ labels_drawn' = {}
    /\ pasted' = <<>>
    /\ displayed' = FALSE
    /\ downloads' = {}
    /\ messages' = {}
    /\ export_step' = 0
    /\ exception' = NoException
    /\ run' = run + 1
    /\ UNCHANGED <<call, result>>

(* st.session_state.get(key, default) *)
Get(state, key, default) == IF key \in DOMAIN state THEN state[key] ELSE default

(* int(len(uploaded_files) ** 0.5) *)
suggested_cols ==
    CHOOSE k \in 0..Len(uploaded_files) :
        k * k <= Len(uploaded_files) /\ (k + 1) * (k + 1) > Len(uploaded_files)

(* len(uploaded_files) // suggested_cols + (1 if len(uploaded_files) % suggested_cols else 0) *)
suggested_rows ==
    Len(uploaded_files) \div suggested_cols
    + (IF Len(uploaded_files) % suggested_cols # 0 THEN 1 ELSE 0)

(* The auto-suggest button: the run it starts stores the suggestion in
   st.session_state and calls st.rerun().  The number inputs of cols and rows
   have no key and no default taken from st.session_state, so the rerun finds
   them as they were. *)
PressAutoSuggest ==
    /\ RunEnded
    /\ run < MaxRuns
    /\ session_state' =
          Updated(session_state, [cols |-> suggested_cols, rows |-> suggested_rows])
    /\ pdf_button' = FALSE
    /\ rerun_cause' = "auto_suggest"
    /\ ResetScript
    /\ UNCHANGED <<fixed_inputs, preset_inputs>>

(* The "Generate PDF" button: the run it starts sees the button pressed. *)
PressGeneratePDF ==
    /\ pc = "done"
    /\ run < MaxRuns
    /\ pdf_button' = TRUE
    /\ rerun_cause' = "generate_pdf"
    /\ ResetScript
    /\ UNCHANGED <<fixed_inputs, preset_inputs, session_state>>

(* The colour pickers a background type brings with it, each starting from
   its default. *)
PickersOf(type, state) ==
    BackgroundColors(type, Get(state, "bg_color", "#FFFFFF"),
                     Get(state, "bg_color1", "#FFFFFF"), Get(state, "bg_color2", "#F0F0F0"))

(* The user selects another background type. *)
ChangeBackground ==
    /\ RunEnded
    /\ run < MaxRuns
    /\ \E type \in BackgroundTypes \ {background_type} :
          /\ background_type' = type
          /\ bg_color' = PickersOf(type, session_state).bg_color
          /\ bg_color1' = PickersOf(type, session_state).bg_color1
          /\ bg_color2' = PickersOf(type, session_state).bg_color2
    /\ pdf_button' = FALSE
    /\ rerun_cause' = "widget"
    /\ ResetScript
    /\ UNCHANGED <<fixed_inputs, spacing, preserve_transparency, add_borders,
                   border_width, border_color, border_style, session_state>>

(* The dictionaries the four preset buttons store. *)
Presets ==
    {[background_type |-> "Solid Color", bg_color |-> "#FFFFFF", add_borders |-> TRUE,
      border_width |-> 3, border_color |-> "#000000", text_color |-> "#000000",
      spacing |-> 10, preserve_transparency |-> FALSE],
     [background_type |-> "Solid Color", bg_color |-> "#2E2E2E", add_borders |-> TRUE,
      border_width |-> 2, border_color |-> "#FFFFFF", text_color |-> "#FFFFFF",
      spacing |-> 5, preserve_transparency |-> FALSE],
     [background_type |-> "Transparent", add_borders |-> FALSE, text_color |-> "#000000",
      spacing |-> 2, preserve_transparency |-> TRUE, border_width |-> 2,
      border_color |-> "#000000"],
     [background_type |-> "Gradient", bg_color1 |-> "#FFE5E5", bg_color2 |-> "#E5F3FF",
      add_borders |-> TRUE, border_width |-> 2, border_color |-> "#FF6B6B",
      text_color |-> "#2C3E50", spacing |-> 8, preserve_transparency |-> FALSE]}

(* The widgets that take their default from st.session_state, created anew
   with that default. *)
WidgetsFromDefaults(state) ==
    LET type   == Get(state, "background_type", "Solid Color")
        border == Get(state, "add_borders", FALSE)
    IN  /\ background_type' = type
        /\ bg_color' = PickersOf(type, state).bg_color
        /\ bg_color1' = PickersOf(type, state).bg_color1
        /\ bg_color2' = PickersOf(type, state).bg_color2
        /\ preserve_transparency' = Get(state, "preserve_transparency", TRUE)
        /\ add_borders' = border
        /\ border_width' = IF border THEN Get(state, "border_width", 2) ELSE UndefinedNumber
        /\ border_color' = IF border THEN Get(state, "border_color", "#000000") ELSE Undefined
        /\ border_style' = IF ~border THEN Undefined
                           ELSE IF add_borders THEN border_style ELSE "Solid"
        /\ spacing' = Get(state, "spacing", 2)

(* A preset button: the run it starts stores the preset in st.session_state
   and calls st.rerun().  Whether a keyed widget whose default has changed
   starts again from the default or keeps its value depends on the Streamlit
   release, so the rerun finds the widgets either way. *)
PressPreset ==
    /\ pc = "done"
    /\ run < MaxRuns
    /\ \E preset \in Presets, recreated \in BOOLEAN :
          /\ session_state' = Updated(session_state, preset)
          /\ IF recreated
             THEN WidgetsFromDefaults(Updated(session_state, preset))
             ELSE UNCHANGED preset_inputs
    /\ pdf_button' = FALSE
    /\ rerun_cause' = "preset"
    /\ ResetScript
    /\ UNCHANGED fixed_inputs

(* min(3, len(uploaded_files)) *)
DefaultCols(n) == Min(3, n)

(* max(1, len(uploaded_files) // cols + (1 if len(uploaded_files) % cols else 0)) *)
DefaultRows(n, ncols) == Max(1, n \div ncols + (IF n % ncols # 0 THEN 1 ELSE 0))

(* The identity positions of the manual arrangement. *)
IdentityManual(k) ==
    [arrangement_method |-> MANUAL, sort_items_order |-> <<>>,
     position_inputs |-> [i \in 1..k |-> i]]

(* A session starts on the grid the number inputs default to. *)
SessionInit ==
    /\ \E n \in 1..MaxSessionFiles, bg \in BackgroundTypes, pressed \in BOOLEAN :
       \E a \in {IdentityDrag(n), IdentityManual(n)} :
          Setup(Geometry(PlainFiles(n), DefaultRows(n, DefaultCols(n)), DefaultCols(n),
                         10, 20, 2, FALSE)
                @@ NoBorder @@ NoLabels(DefaultRows(n, DefaultCols(n)), DefaultCols(n))
                @@ Rendering(FALSE, bg, TRUE) @@ a @@ Exporting({}, pressed))
    /\ call = NoCall
    /\ result = NoCall

SessionNext ==
    \/ Next
    \/ PressAutoSuggest
    \/ PressGeneratePDF
    \/ ChangeBackground
    \/ PressPreset

SpecSession == SessionInit /\ [][SessionNext]_vars

(***************************************************************************)
(* The helper functions on pixels, examined call by call: the border that  *)
(* resize_image adds and the rows create_gradient_background draws.  A     *)
(* pixel is one colour channel v and an alpha a.                           *)
(***************************************************************************)
Pixel(v, a) == [v |-> v, a |-> a]

(* The positions of a width x height image. *)
Positions(width, height) == (0..(width - 1)) \X (0..(height - 1))

(* Pillow's BLEND8: (in1 * (255 - mask) + in2 * mask) / 255, rounded the way
   DIV255 rounds. *)
BLEND8(mask, in1, in2) ==
    LET tmp == in1 * (255 - mask) + in2 * mask + 128
    IN  ((tmp \div 256) + tmp) \div 256

(* One pixel of dst.paste(src, box, src): every band, alpha included, is
   blended with the alpha of the pasted pixel as the mask. *)
PasteMasked(dst, src) ==
    Pixel(BLEND8(src.a, dst.v, src.v), BLEND8(src.a, dst.a, src.a))

(* One pixel of dst.paste(src, box): the pasted pixel replaces the other. *)
PasteOpaque(dst, src) == src

(* The paste of the border branch: masked by the image itself for an RGBA
   image whose transparency is preserved, opaque otherwise. *)
BorderPaste(img, preserve, dst, src) ==
    IF preserve /\ img.mode = "RGBA" THEN PasteMasked(dst, src) ELSE PasteOpaque(dst, src)

(* "Add border if requested": the tail of resize_image, on the normalised
   image img. *)
AddBorder(img, add_border, bwidth, border_v, style, preserve) ==
    IF add_border /\ bwidth > 0 /\ DrawsBorder(style)
    THEN LET bordered_width  == img.size[1] + 2 * bwidth
             bordered_height == img.size[2] + 2 * bwidth
             fill == Pixel(border_v, 255)
             inside(p) == /\ p[1] >= bwidth /\ p[1] < bwidth + img.size[1]
                          /\ p[2] >= bwidth /\ p[2] < bwidth + img.size[2]
         IN  [mode |-> IF preserve /\ img.mode = "RGBA" THEN "RGBA" ELSE "RGB",
              size |-> <<bordered_width, bordered_height>>,
              px   |-> [p \in Positions(bordered_width, bordered_height) |->
                          IF inside(p)
                          THEN BorderPaste(img, preserve, fill,
                                           img.px[<<p[1] - bwidth, p[2] - bwidth>>])
                          ELSE fill]]
    ELSE img

(* The pixels of normalised images: RGB pixels are opaque, RGBA pixels are
   opaque, fully transparent or partly transparent. *)
PixelsOfMode(mode) ==
    IF mode = "RGBA" THEN {Pixel(200, 255), Pixel(200, 0), Pixel(200, 128)}
    ELSE {Pixel(200, 255), Pixel(10, 255)}

NormalisedImages ==
    UNION {{[mode |-> mode, size |-> <<w, h>>, px |-> f] :
                f \in [Positions(w, h) -> PixelsOfMode(mode)]} :
           mode \in {"RGB", "RGBA"}, w \in 1..MaxImageSide, h \in 1..2}

(* The calls of resize_image that reach the border step with borders
   enabled: an RGBA image comes out of the normalisation only when
   transparency is preserved. *)
BorderCalls ==
    {[fn |-> "resize_image", img |-> img, border_width |-> w, border_v |-> 0,
      border_style |-> style, preserve_transparency |-> preserve] :
        img \in NormalisedImages, w \in 1..MaxBorderWidth, style \in BorderStyles,
        preserve \in BOOLEAN}

ReachableBorderCalls ==
    {c \in BorderCalls : c.img.mode = "RGBA" => c.preserve_transparency}

(* The inputs <<c1, c2, height, y>> of the gradient domain at which the
   double-precision value of c1 * (1 - y / height) + c2 * (y / height) lies
   just below the whole number that the exact sum is. *)
FallsShort ==
    {<<255, 0, 5, 4>>, <<255, 255, 7, 3>>, <<255, 0, 10, 8>>, <<255, 255, 12, 5>>,
     <<255, 255, 13, 3>>, <<255, 255, 14, 6>>, <<255, 255, 100, 4>>,
     <<255, 255, 100, 7>>, <<255, 255, 100, 17>>, <<255, 255, 100, 29>>,
     <<255, 0, 100, 80>>}

(* height times the exact value of c1 * (1 - y / height) + c2 * (y / height) *)
Interpolated(c1, c2, y, height) == c1 * (height - y) + c2 * y

(* The nearest integer to num / den, halves to the even one (round). *)
RoundDivEven(num, den) ==
    LET q == num \div den
        r == num % den
    IN  IF 2 * r > den \/ (2 * r = den /\ q % 2 = 1) THEN q + 1 ELSE q

(* GradientChannel with round() in the place of int(). *)
GradientChannelRounded(c1, c2, y, height) ==
    RoundDivEven(Interpolated(c1, c2, y, height), height)

(* int(r1 * (1 - ratio) + r2 * ratio) with ratio = y / height: the
   double-precision sum, truncated. *)
GradientChannel(c1, c2, y, height) ==
    Interpolated(c1, c2, y, height) \div height
    - (IF <<c1, c2, height, y>> \in FallsShort THEN 1 ELSE 0)

(* create_gradient_background, direction "vertical": the channel of every
   row. *)
create_gradient_background(height, c1, c2) ==
    [y \in 0..(height - 1) |-> GradientChannel(c1, c2, y, height)]

(* The channel values and heights of the gradients examined. *)
Channels == {0, 128, 255}

GradientCalls ==
    {[fn |-> "create_gradient_background", height |-> h, c1 |-> c1, c2 |-> c2] :
        h \in (1..MaxGradientHeight) \cup {100}, c1 \in Channels, c2 \in Channels}

(* The script at rest while a helper is examined. *)
Idle ==
    Setup(Geometry(PlainFiles(1), 1, 1, 10, 20, 0, FALSE) @@ NoBorder @@ NoLabels(1, 1)
          @@ Rendering(FALSE, "Solid Color", TRUE) @@ IdentityDrag(1) @@ AllEncode)

CallsInit ==
    /\ Idle
    /\ call \in ReachableBorderCalls \cup GradientCalls
    /\ result = NoCall

(* The border step of resize_image is applied to the normalised image. *)
ApplyBorder ==
    /\ call.fn = "resize_image"
    /\ result = NoCall
    /\ result' = [fn |-> "resize_image",
                  value |-> AddBorder(call.img, TRUE, call.border_width, call.border_v,
                                      call.border_style, call.preserve_transparency)]
    /\ UNCHANGED <<inputs, pc, idvars, countvars, sorted_unique_ids, images, layoutvars,
                   rendervars, messages, export_step, exception, session_state,
                   run, rerun_cause, call>>

(* The gradient is drawn. *)
DrawGradient ==
    /\ call.fn = "create_gradient_background"
    /\ result = NoCall
    /\ result' = [fn |-> "create_gradient_background",
                  value |-> create_gradient_background(call.height, call.c1, call.c2)]
    /\ UNCHANGED <<inputs, pc, idvars, countvars, sorted_unique_ids, images, layoutvars,
                   rendervars, messages, export_step, exception, session_state,
                   run, rerun_cause, call>>

CallsNext == ApplyBorder \/ DrawGradient

SpecCalls == CallsInit /\ [][CallsNext]_vars

(***************************************************************************)
(* The claims.                                                             *)
(***************************************************************************)
(* The cell extent of the layout: the cell size plus the border on both
   sides when borders are enabled. *)
CellExtentW == resize_width + (IF add_borders THEN 2 * border_width ELSE 0)

CellExtentH == resize_height + (IF add_borders THEN 2 * border_width ELSE 0)

LayoutDone == pc \in {"background", "labels", "paste", "display", "export", "info", "done"}

CanvasAllocated == pc \in {"labels", "paste", "display", "export", "info", "done"}

(* C1: the canvas is allocated with width leftMargin + cols*cellExtentW +
   (cols-1)*spacing + rightMargin and height topMargin + rows*cellExtentH +
   (rows-1)*spacing + bottomMargin. *)
C1_CanvasSize ==
    CanvasAllocated =>
        grid_img.size =
            <<left_label_width + cols * CellExtentW + (cols - 1) * spacing
                  + right_label_width,
              top_label_height + rows * CellExtentH + (rows - 1) * spacing
                  + bottom_label_height>>

C1_Witness ==
    /\ pc = "done"
    /\ add_borders /\ cols >= 2 /\ rows >= 2 /\ spacing > 0
    /\ left_label_width > 0 /\ top_label_height > 0 /\ bottom_label_height > 0

(* A text is blank when it holds nothing but spaces. *)
IsBlank(label) == \A i \in 1..Len(label) : label[i] = " "

(* The largest measured extent over the non-blank texts. *)
LargestExtent(labels, vertical) ==
    LET S == {IF vertical THEN TextH(labels[i]) ELSE TextW(labels[i]) :
                i \in {j \in 1..Len(labels) : ~IsBlank(labels[j])}}
    IN  CHOOSE m \in S : \A e \in S : e <= m

(* The margin the claim gives one side. *)
ClaimedMargin(enabled, labels, selected, vertical) ==
    IF enabled /\ (\E i \in 1..Len(labels) : ~IsBlank(labels[i])) /\ selected
    THEN LargestExtent(labels, vertical) + 15
    ELSE 0

(* C2: each label margin is 0 unless its axis is enabled, has a non-blank
   text and the position selects the side; otherwise it is the largest
   measured extent over the non-blank texts plus 15, and "Both" gives the
   two opposite margins the same value. *)
C2_LabelMargins ==
    LayoutDone =>
        /\ top_label_height =
              ClaimedMargin(show_col_labels, col_labels,
                            col_label_pos \in {"Top", "Both (Top & Bottom)"}, TRUE)
        /\ bottom_label_height =
              ClaimedMargin(show_col_labels, col_labels,
                            col_label_pos \in {"Bottom", "Both (Top & Bottom)"}, TRUE)
        /\ left_label_width =
              ClaimedMargin(show_row_labels, row_labels,
                            row_label_pos \in {"Left", "Both (Left & Right)"},
                            row_label_orientation = "Vertical")
        /\ right_label_width =
              ClaimedMargin(show_row_labels, row_labels,
                            row_label_pos \in {"Right", "Both (Left & Right)"},
                            row_label_orientation = "Vertical")
        /\ (show_col_labels /\ col_label_pos = "Both (Top & Bottom)"
                => top_label_height = bottom_label_height)
        /\ (show_row_labels /\ row_label_pos = "Both (Left & Right)"
                => left_label_width = right_label_width)

C2_Witness ==
    /\ pc = "done"
    /\ show_col_labels /\ col_label_pos = "Both (Top & Bottom)"
    /\ col_labels = << <<"a">>, <<" ", "T", "g">> >>
    /\ top_label_height = 29 /\ bottom_label_height = 29
    /\ show_row_labels /\ row_label_pos = "Left" /\ right_label_width = 0
    /\ left_label_width = 22

(* C3: resize_image returns a bitmap of exactly cellExtentW x cellExtentH,
   for every border style. *)
C3_ResizeMatchesExtent ==
    \A i \in 1..Len(images) : images[i].size = <<CellExtentW, CellExtentH>>

(* The row and column of the image with 0-based index idx, row-major. *)
CellRow(idx) == idx \div cols

CellCol(idx) == idx % cols

(* The final row that holds images, and how many it holds. *)
LastImageRow == (Len(images) - 1) \div cols

LastRowCount == Len(images) - LastImageRow * cols

(* Image idx lies in a final row that last-row centering is to re-center. *)
InIncompleteLastRow(idx) ==
    center_last_row /\ CellRow(idx) = LastImageRow /\ LastRowCount < cols

(* C4: a placed image with index i that is not in a re-centered last row is
   pasted at (leftMargin + (i mod cols)*(cellExtentW+spacing),
   topMargin + (i div cols)*(cellExtentH+spacing)). *)
C4_PasteOrigin ==
    \A i \in 1..Len(pasted) :
        ~InIncompleteLastRow(i - 1) =>
            /\ pasted[i].x = left_label_width + CellCol(i - 1) * (CellExtentW + spacing)
            /\ pasted[i].y = top_label_height + CellRow(i - 1) * (CellExtentH + spacing)

C4_Witness ==
    /\ pc = "done" /\ Len(pasted) = 4 /\ cols = 2 /\ rows = 3
    /\ center_last_row /\ add_borders /\ spacing = 10 /\ resize_width = 100
    /\ left_label_width > 0 /\ top_label_height > 0
    /\ pasted[4].x > left_label_width /\ pasted[4].y > top_label_height

(* The x the claim gives the k-th image (k = idx mod cols) of an incomplete
   final row of n images. *)
CenteredX(idx) ==
    LET n == LastRowCount
        fullRowWidth == cols * CellExtentW + (cols - 1) * spacing
        startX == left_label_width
                    + (fullRowWidth - (n * CellExtentW + (n - 1) * spacing)) \div 2
    IN  startX + CellCol(idx) * (CellExtentW + spacing)

(* C5: with centerLastRow enabled, whenever the final row that holds images
   holds n < cols images, its k-th image is pasted at startX +
   k*(cellExtentW+spacing), also when the images end before row rows-1. *)
C5_CenterLastRow ==
    \A i \in 1..Len(pasted) :
        InIncompleteLastRow(i - 1) => pasted[i].x = CenteredX(i - 1)

(* The configuration of the numerical example, with its last image pasted. *)
C6_Example ==
    /\ center_last_row /\ rows = 2 /\ cols = 3 /\ spacing = 10
    /\ Len(images) = 4 /\ Len(pasted) = 4
    /\ CellExtentW = 100

(* C6 as stated: the single image of the last row is pasted at
   x = leftMargin + 100. *)
C6_AsStated == C6_Example => pasted[4].x = left_label_width + 100

(* C6 amended: with centerLastRow enabled, rows=2, cols=3, spacing=10,
   cellExtentW=100 and 4 placed images, the single image of the last row is
   pasted at x = leftMargin + 110. *)
C6_Amended == C6_Example => pasted[4].x = left_label_width + 110

C6_Witness == C6_Example /\ pc = "done" /\ left_label_width > 0

(* Two pasted images occupy disjoint pixel rectangles. *)
Disjoint(p, q) ==
    \/ p.x + p.size[1] <= q.x
    \/ q.x + q.size[1] <= p.x
    \/ p.y + p.size[2] <= q.y
    \/ q.y + q.size[2] <= p.y

(* C7: the pixel rectangles of any two distinct pasted cell images are
   disjoint. *)
C7_NoOverlap ==
    \A i, j \in 1..Len(pasted) : i # j => Disjoint(pasted[i], pasted[j])

C7_Witness ==
    /\ pc = "done" /\ Len(pasted) = 4 /\ cols = 3 /\ rows = 2
    /\ center_last_row /\ spacing = 0
    /\ add_borders /\ border_style = "Solid"
    /\ pasted[2].x = pasted[1].x + pasted[1].size[1]
    /\ pasted[4].y = pasted[1].y + pasted[1].size[2]

(* Execution has continued past the arrangement step. *)
Arranged == sorted_unique_ids # <<>>

(* The uploads the placement order shows, slot by slot. *)
PlacedFile(i) == file_id_to_file[sorted_unique_ids[i]]

ArrangedMin == Min(rows * cols, Len(uploaded_files))

(* C8: whenever execution continues past the arrangement step, the placement
   order has length min(rows*cols, uploads) and contains each of the first
   min(rows*cols, uploads) uploaded files exactly once; manual positions
   with a duplicate or without a required position stop the run with an
   error and no grid. *)
C8_PlacementIsPermutation ==
    /\ Arranged =>
          /\ Len(sorted_unique_ids) = ArrangedMin
          /\ \A f \in 1..ArrangedMin :
                Cardinality({i \in 1..Len(sorted_unique_ids) : PlacedFile(i) = f}) = 1
    /\ (/\ arrangement_method = MANUAL
        /\ pc \notin {"unique_ids", "count", "arrange"}
        /\ \/ \E i, j \in 1..Len(position_inputs) :
                  i # j /\ position_inputs[i] = position_inputs[j]
           \/ \E q \in 1..(rows * cols) : q \notin Range(position_inputs))
          => /\ pc = "stopped"
             /\ \E m \in messages : m \in {"error: each position must be unique",
                                           "error: use positions 1 to N exactly once"}
             /\ grid_img = NoImage /\ ~displayed

(* C9: with fewer images than rows*cols the run only warns and still
   renders; in manual position mode the distinct positions 1..(number of
   images) are accepted. *)
C9_FewerImagesAccepted ==
    (/\ Len(uploaded_files) < rows * cols
     /\ pc \notin {"unique_ids", "count", "arrange"}
     /\ \/ arrangement_method = DRAG /\ sort_items_order # <<>>
        \/ /\ arrangement_method = MANUAL
           /\ position_inputs = [i \in 1..Len(uploaded_files) |-> i])
        => /\ "warning: fewer images than grid size" \in messages
           /\ Arranged
           /\ \A m \in messages : m \notin {"error: each position must be unique",
                                            "error: use positions 1 to N exactly once"}

(* Some image of the placement order cannot be opened or normalised. *)
SomePlacedFileFails ==
    \E i \in 1..Len(sorted_unique_ids) : ~FileOf(sorted_unique_ids[i]).ok

(* C10: if opening or normalising any image of the placement order fails,
   the run stops with an error before the canvas is allocated: no canvas, no
   paste, no export, however many earlier images were processed. *)
C10_FailFast ==
    (Arranged /\ SomePlacedFileFails) =>
        /\ grid_img = NoImage /\ labels_drawn = {} /\ pasted = <<>>
        /\ ~displayed /\ downloads = {}
        /\ pc \in {"process", "stopped"}
        /\ (pc = "stopped" => "error: processing images" \in messages)

C10_Witness ==
    /\ pc = "stopped" /\ "error: processing images" \in messages
    /\ Len(images) >= 1 /\ Len(images) < Len(sorted_unique_ids)
    /\ grid_img = NoImage

(* The run has come to its end after the grid was displayed. *)
ExportsOver == displayed /\ pc \in {"done", "crashed"}

Offered(format) == \E d \in downloads : d.format = format

(* C11: a failure of one format's serialisation is confined to that format:
   at the end of a run every format offered on every run whose encoder did
   not fail is available for download, whether it comes before or after the
   failing one, and so is the PDF when it was generated. *)
C11_FailureConfined ==
    ExportsOver =>
        /\ \A format \in DownloadFormats \ encode_fails : Offered(format)
        /\ (pdf_button /\ "PDF" \notin encode_fails) => Offered("PDF")

(* C12: across the runs of a session, everything offered for download in a
   run, the PDF included, is an encoding of the canvas rendered in that run. *)
C12_ExportsOfThisRun == \A d \in downloads : d.canvas = Canvas

(* C18: in the rerun that pressing auto-suggest starts, the grid is the
   suggested one, and the suggested grid has room for every upload. *)
C18_AutoSuggestApplied ==
    rerun_cause = "auto_suggest" =>
        /\ cols = suggested_cols
        /\ rows = suggested_rows
        /\ suggested_cols * suggested_rows >= Len(uploaded_files)

(* The border step has been applied to a normalised image. *)
Bordered == result.fn = "resize_image"

(* C13: with borders enabled and width w, the bordered image of every
   normalised image, RGB or RGBA, measures (cellWidth + 2w) x (cellHeight + 2w),
   every pixel of its outer ring of width w is the opaque border colour, and
   every inner pixel is the corresponding pixel of the normalised image. *)
C13_BorderRingAndInner ==
    Bordered =>
        LET w   == call.border_width
            src == call.img
            out == result.value
        IN  /\ out.size = <<src.size[1] + 2 * w, src.size[2] + 2 * w>>
            /\ \A p \in Positions(out.size[1], out.size[2]) :
                  IF /\ p[1] >= w /\ p[1] < w + src.size[1]
                     /\ p[2] >= w /\ p[2] < w + src.size[2]
                  THEN out.px[p] = src.px[<<p[1] - w, p[2] - w>>]
                  ELSE out.px[p] = Pixel(call.border_v, 255)

(* The gradient has been drawn. *)
GradientDrawn == result.fn = "create_gradient_background"

(* C14 as stated: every row y of a vertical gradient of height h has the
   channel round(c1 * (1 - y/h) + c2 * (y/h)). *)
C14_AsStated ==
    GradientDrawn =>
        \A y \in 0..(call.height - 1) :
            result.value[y] = RoundDivEven(Interpolated(call.c1, call.c2, y, call.height),
                                           call.height)

(* C14, amended: every row y of a vertical gradient of height h has the
   channel c1 * (1 - y/h) + c2 * (y/h) truncated to an integer: never above
   the exact value and at most 1 below it; row 0 is c1; from 255 to 0 over
   100 rows, row 50 is 127 and row 99 is 2. *)
C14_Amended ==
    GradientDrawn =>
        /\ \A y \in 0..(call.height - 1) :
              /\ result.value[y] * call.height <= Interpolated(call.c1, call.c2, y, call.height)
              /\ Interpolated(call.c1, call.c2, y, call.height)
                    <= (result.value[y] + 1) * call.height
        /\ result.value[0] = call.c1
        /\ (call.c1 = 255 /\ call.c2 = 0 /\ call.height = 100) =>
              /\ result.value[50] = 127
              /\ result.value[99] = 2

C14_Witness ==
    /\ GradientDrawn
    /\ call.c1 = 255 /\ call.c2 = 0 /\ call.height = 100
    /\ result.value[50] = 127

(* C15: JPEG and BMP are encoded from an opaque image: an RGBA canvas is
   first composited onto an opaque white RGB image of the same size, an RGB
   canvas is encoded as it is; the encoder is never handed an alpha
   channel. *)
C15_OpaqueJpegAndBmp ==
    \A d \in downloads :
        d.format \in {"JPEG", "BMP"} =>
            /\ d.image.mode = "RGB"
            /\ d.image.size = grid_img.size
            /\ d.image.backing = IF grid_img.mode = "RGBA" THEN "white" ELSE "none"

C15_Witness ==
    /\ grid_img.mode = "RGBA"
    /\ \E d \in downloads : d.format = "BMP" /\ d.image.mode = "RGB"
    /\ \E d \in downloads : d.format = "JPEG" /\ d.image.backing = "white"
    /\ \E d \in downloads : d.format = "PNG" /\ d.image.mode = "RGBA"

(* The colour of the fill behind a rotated label. *)
BackingColour(backing) == IF backing = "bg_color" THEN bg_color ELSE "#FFFFFF"

(* The colours of the canvas background. *)
CanvasColours ==
    IF grid_img.fill = "bg_color" THEN {bg_color}
    ELSE IF grid_img.fill = "gradient" THEN {bg_color1, bg_color2}
    ELSE {}

(* C16: a vertical row label on a background that is not transparent, solid
   or gradient, is flattened onto a fill of the colour of the canvas
   background it is pasted over; on a transparent background it is
   composited by its alpha with no fill behind it. *)
C16_VerticalLabelBacking ==
    \A l \in labels_drawn :
        l.kind = "rotated" =>
            IF background_type = "Transparent"
            THEN l.backing = "none"
            ELSE l.backing # "none" /\ CanvasColours = {BackingColour(l.backing)}

(* C17: create_unique_id gives distinct uploads distinct identifiers, also
   when they share a filename, so file_id_to_file keeps one entry per upload
   and every slot of the grid shows the upload assigned to it. *)
C17_DistinctIdentifiers ==
    pc # "unique_ids" =>
        /\ \A i, j \in 1..Len(uploaded_files) :
              i # j => create_unique_id(uploaded_files[i], i - 1)
                          # create_unique_id(uploaded_files[j], j - 1)
        /\ Cardinality(DOMAIN file_id_to_file) = Len(uploaded_files)
        /\ \A k \in 1..Len(pasted) :
              IF arrangement_method = DRAG
              THEN pasted[k].file = sort_items_order[k]
              ELSE position_inputs[pasted[k].file] = k

(* C19: every image pasted lies inside the canvas, within the label
   margins, with the last row centred or not, and at most rows * cols
   images are pasted. *)
C19_PastedInsideCanvas ==
    /\ Len(pasted) <= rows * cols
    /\ \A k \in 1..Len(pasted) :
          /\ pasted[k].x >= left_label_width
          /\ pasted[k].y >= top_label_height
          /\ pasted[k].x + pasted[k].size[1] <= grid_width - right_label_width
          /\ pasted[k].y + pasted[k].size[2] <= grid_height - bottom_label_height

C19_Witness ==
    /\ pc = "done"
    /\ Len(pasted) = rows * cols /\ cols >= 2 /\ rows >= 2
    /\ center_last_row /\ add_borders
    /\ top_label_height > 0 /\ bottom_label_height > 0 /\ left_label_width > 0
    /\ pasted[Len(pasted)].x + pasted[Len(pasted)].size[1] = grid_width - right_label_width
    /\ pasted[Len(pasted)].y + pasted[Len(pasted)].size[2]
          = grid_height - bottom_label_height

(* The conditionally defined variables the step the script is at reads. *)
ReadsAt ==
    CASE pc = "process" -> ProcessReads
      [] pc = "layout" -> LayoutReads
      [] pc = "background" -> BackgroundReads
      [] pc = "labels" -> LabelReads
      [] pc = "info" -> InfoReads
      [] OTHER -> {}

(* C20: whatever the option widgets are set to, every conditionally defined
   variable is defined on every path that reads it, in the normalisation,
   the layout, the rendering and the grid information: no step reads an
   unassigned name. *)
C20_ReadsDefined ==
    /\ Raises(ReadsAt) = {}
    /\ exception.type # "NameError"

C20_Witness ==
    /\ pc = "layout"
    /\ LayoutReads = {"border_width", "col_label_pos", "row_label_orientation",
                      "row_label_pos"}
    /\ bg_color1 = Undefined /\ bg_color2 = Undefined

====
